---- MODULE Spec2Model ----
(***************************************************************************)
(* A model of the SME Financial Health API (src/app.py): the handler      *)
(* analyze_financials, its use of the SQLAlchemy session factory          *)
(* (src/database.py) and of the Transaction table (src/models.py).        *)
(*                                                                         *)
(* Amounts are binary floating-point numbers (float64 in the program).    *)
(* The model keeps the rounding of every addition and subtraction but     *)
(* with a mantissa of Prec bits instead of 53: a value is an integer, and *)
(* Fl rounds it to the nearest value with Prec significant bits, ties to  *)
(* even.  profit_margin_percent is kept in hundredths of a percent.       *)
(***************************************************************************)
EXTENDS Integers, Sequences, FiniteSets, TLC

\* ------------------------------------------------------------- bounds
\* Longest uploaded ledger (rows) of a request analysed alone.
MaxRows == 3
\* Longest uploaded table whose cells are of every kind (dirty cells too).
MaxMixedRows == 2
\* Largest raise of net_profit (units) and of the margin (percent) tried.
MaxRaise == 10
\* Longest uploaded table of each of the concurrent requests.
MaxRowsConc == 1
\* Mantissa width of the modelled floating-point numbers.
Prec == 5

\* ------------------------------------------------------------- inputs
Reqs == {1, 2}

SupportedExt == {"csv", "xlsx", "pdf"}
Exts == SupportedExt \cup {"docx"}

\* Date cells: a calendar date, or an empty cell (every cell parses: a
\* table with a cell that pd.to_datetime rejects is not among the inputs).
Jan15 == [empty |-> FALSE, y |-> 2024, m |-> 1, d |-> 15]
Feb03 == [empty |-> FALSE, y |-> 2024, m |-> 2, d |-> 3]
NoDate == [empty |-> TRUE, y |-> 0, m |-> 0, d |-> 0]
DateCells == {Jan15, Feb03, NoDate}

\* Type cells, as typed by the user; NaNType is the empty cell, which
\* read_csv makes NaN and the .str methods leave NaN.
NaNType == ""
TypeCells == {" Income", "expense", "refund", NaNType}

\* Amount cells: a number, or text that is no number.
NumCell(v) == [num |-> TRUE, val |-> v]
TextCell == [num |-> FALSE, val |-> 0]
AmountCells == {NumCell(2), NumCell(31), NumCell(0 - 2), TextCell}

RawRows == [date : DateCells, type : TypeCells, amount : AmountCells]

\* Rows of a clean ledger: income and expense rows with a positive amount.
LedgerRows == [date : DateCells, type : {" Income", "expense"},
               amount : {NumCell(2), NumCell(31)}]

\* The tables of exactly n rows drawn from S.
Tables(S, n) == [1..n -> S]

AllCols == {"amount", "type", "date"}

\* ------------------------------------------------- floating point sums
RECURSIVE Ulp(_, _)
\* The spacing of the representable values around a >= 0.
Ulp(a, q) == IF a < q * (2 ^ Prec) THEN q ELSE Ulp(a, 2 * q)

\* n / d (d > 0) rounded to the nearest integer, ties to the even one.
RoundDiv(n, d) ==
    LET f == n \div d
        r == n % d
    IN  IF 2 * r < d THEN f
        ELSE IF 2 * r > d THEN f + 1
        ELSE IF f % 2 = 0 THEN f ELSE f + 1

FlAbs(a) == LET q == Ulp(a, 1) IN q * RoundDiv(a, q)

\* Rounding of an exact result to a representable value.
Fl(x) == IF x >= 0 THEN FlAbs(x) ELSE 0 - FlAbs(0 - x)

RECURSIVE FSumFrom(_, _, _)
FSumFrom(s, i, acc) ==
    IF i > Len(s) THEN acc ELSE FSumFrom(s, i + 1, Fl(acc + s[i]))

\* Series.sum(): the amounts added one after the other, in row order.
FSum(s) == FSumFrom(s, 1, 0)

\* int(): truncation towards zero of n / d (d > 0).
Trunc(n, d) == IF n >= 0 THEN n \div d ELSE 0 - ((0 - n) \div d)

\* ------------------------------------------------------ normalization
ToNumeric(c) == IF c.num THEN c.val ELSE 0

NormType(t) == IF t = " Income" THEN "income" ELSE t

ToDatetime(c) == [nat |-> c.empty, y |-> c.y, m |-> c.m, d |-> c.d]

NormalizeRow(row) ==
    [date |-> ToDatetime(row.date), type |-> NormType(row.type),
     amount |-> ToNumeric(row.amount)]

NormalizeRows(rows) == [i \in 1..Len(rows) |-> NormalizeRow(rows[i])]

\* ------------------------------------------------------------ metrics
AmountsOfType(df, t) ==
    LET IsT(row) == row.type = t
        sel == SelectSeq(df, IsT)
    IN  [i \in 1..Len(sel) |-> sel[i].amount]

\* float(df[df["type"] == t]["amount"].sum())
TotalOfType(df, t) == FSum(AmountsOfType(df, t))

NetProfit(total_income, total_expense) == Fl(total_income - total_expense)

\* round((net_profit / total_income) * 100, 2), in hundredths of a
\* percent: the quotient is rounded once, to two decimals.
ProfitMargin(net_profit, total_income) ==
    IF total_income > 0 THEN RoundDiv(net_profit * 10000, total_income) ELSE 0

\* ------------------------------------------------------------ scoring
Risk(net_profit, profit_margin) ==
    IF net_profit <= 0 THEN "HIGH"
    ELSE IF profit_margin < 500 THEN "MEDIUM"
    ELSE "LOW"

Min(a, b) == IF a < b THEN a ELSE b
Max(a, b) == IF a > b THEN a ELSE b

\* Mutant: the margin bonus subtracted instead of added.
CreditPenalty(net_profit, profit_margin) ==
    Min(100, 50 + (IF net_profit > 0 THEN 20 ELSE 0)
                - (IF profit_margin > 1000 THEN 15 ELSE 0))

\* Mutant: the profit bonus given at break-even too.
CreditBreakEven(net_profit, profit_margin) ==
    Min(100, 50 + (IF net_profit >= 0 THEN 20 ELSE 0)
                + (IF profit_margin > 1000 THEN 15 ELSE 0))

Credit(net_profit, profit_margin) ==
    Min(100, 50 + (IF net_profit > 0 THEN 20 ELSE 0)
                + (IF profit_margin > 1000 THEN 15 ELSE 0))

Eligibility(credit) ==
    IF credit >= 75 THEN "YES" ELSE IF credit >= 55 THEN "MAYBE" ELSE "NO"

Multiplier(risk) == IF risk = "LOW" THEN 12 ELSE IF risk = "MEDIUM" THEN 6 ELSE 3

\* Mutant: the amount computed whatever the eligibility.
RecommendedAmountAlways(net_profit, buckets, risk, eligibility) ==
    Trunc(net_profit * Multiplier(risk), Max(buckets, 1))

\* int(avg_profit * multiplier) if eligibility != "NO" else 0, with
\* avg_profit = net_profit / max(len(monthly), 1).
RecommendedAmount(net_profit, buckets, risk, eligibility) ==
    IF eligibility # "NO"
    THEN Trunc(net_profit * Multiplier(risk), Max(buckets, 1))
    ELSE 0

Loan(net_profit, buckets, risk, credit) ==
    [eligible |-> Eligibility(credit),
     recommended_amount |->
         RecommendedAmount(net_profit, buckets, risk, Eligibility(credit)),
     tenure_months |-> IF risk = "LOW" THEN 24 ELSE 18,
     interest_rate_estimate |-> IF risk = "LOW" THEN "10-12%" ELSE "13-16%",
     risk_level |-> risk,
     confidence_score |-> credit]

\* ------------------------------------------------------------ monthly
\* df["date"].dt.to_period("M").astype(str): "YYYY-MM", or "NaT".
MonthOf(date) == [nat |-> date.nat, y |-> date.y, m |-> date.m]

\* The order of the month keys as strings: "NaT" sorts after every "YYYY-MM".
MonthLeq(a, b) ==
    IF a.nat THEN b.nat
    ELSE b.nat \/ a.y < b.y \/ (a.y = b.y /\ a.m <= b.m)

RECURSIVE SortedMonths(_)
SortedMonths(S) ==
    IF S = {} THEN <<>>
    ELSE LET first == CHOOSE x \in S : \A z \in S : MonthLeq(x, z)
         IN  <<first>> \o SortedMonths(S \ {first})

\* groupby(["month", "type"])["amount"].sum(): one group's amounts, added
\* in row order.
GroupSum(df, month, t) ==
    LET InGroup(row) == MonthOf(row.date) = month /\ row.type = t
        sel == SelectSeq(df, InGroup)
    IN  FSum([i \in 1..Len(sel) |-> sel[i].amount])

\* The rows groupby keeps: it drops the rows whose type is NaN.
Grouped(df) == LET HasType(row) == row.type # NaNType IN SelectSeq(df, HasType)

\* The columns unstack() makes: one per type present in the table.
TypeColumns(df) == {df[i].type : i \in 1..Len(df)} \ {NaNType}

\* monthly.get(col, 0) on one row of the unstacked, zero-filled frame.
GetCol(df, month, col) ==
    IF col \in TypeColumns(df) THEN GroupSum(df, month, col) ELSE 0

\* One record of monthly.reset_index().to_dict(orient="records").
Bucket(df, month) ==
    [c \in {"month", "cashflow"} \cup TypeColumns(df) |->
        IF c = "month" THEN month
        ELSE IF c = "cashflow"
        THEN Fl(GetCol(df, month, "income") - GetCol(df, month, "expense"))
        ELSE GroupSum(df, month, c)]

Monthly(df) ==
    LET kept == Grouped(df)
        months == SortedMonths({MonthOf(kept[i].date) : i \in 1..Len(kept)})
    IN  [k \in 1..Len(months) |-> Bucket(df, months[k])]

\* ------------------------------------------------------------- result
\* The f-strings of ai_summary, by the values they print.
Summary(total_income, net_profit, eligibility) ==
    [english |-> <<total_income, net_profit, eligibility>>,
     tamil |-> <<total_income, eligibility>>,
     hindi |-> <<total_income, eligibility>>]

\* Lines 77-132 of analyze_financials on a normalized table.
Analyze(df) ==
    LET total_income == TotalOfType(df, "income")
        total_expense == TotalOfType(df, "expense")
        net_profit == NetProfit(total_income, total_expense)
        profit_margin == ProfitMargin(net_profit, total_income)
        risk == Risk(net_profit, profit_margin)
        credit == Credit(net_profit, profit_margin)
        monthly == Monthly(df)
        loan == Loan(net_profit, Len(monthly), risk, credit)
    IN  [kind |-> "result",
         investor_metrics |->
            [total_income |-> total_income,
             total_expense |-> total_expense,
             net_profit |-> net_profit,
             profit_margin_percent |-> profit_margin,
             credit_score |-> credit],
         monthly_cashflow |-> monthly,
         loan_recommendation |-> loan,
         ai_summary |-> Summary(total_income, net_profit, loan.eligible)]

\* ------------------------------------------------------------ uploads
\* An upload: the extension of the file name, the columns of the table
\* the parser returns and its rows.  Cells of a column that is not in
\* cols do not exist and are never read.
UploadOf(e, c, t) == [ext |-> e, cols |-> c, rows |-> t]

\* Rows of the concurrent requests.
ConcRows == [date : {Jan15}, type : {" Income", "expense"},
             amount : {NumCell(2), NumCell(31)}]

\* -------------------------------------------------------------- state
VARIABLES
    pc,       \* pc[r]: where request r is in analyze_financials
    upload,   \* upload[r]: the file of request r
    df,       \* df[r]: the DataFrame of request r
    session,  \* session[r]: "none", "open" or "closed"
    pending,  \* pending[r]: the objects added to r's session, not yet flushed
    store,    \* the rows of the transactions table, shared by all requests
    resp      \* resp[r]: what the caller of request r receives

vars == <<pc, upload, df, session, pending, store, resp>>

NoUpload == [ext |-> "", cols |-> {}, rows |-> <<>>]
NoResponse == [kind |-> "none"]
\* A returned {"error": ...} body.
ErrorResponse(msg) == [kind |-> "error", error |-> msg]
\* An exception that leaves the handler: the caller gets a bare HTTP 500.
Fault(exc, arg) == [kind |-> "fault", exc |-> exc, arg |-> arg]

Init ==
    /\ pc = [r \in Reqs |-> "idle"]
    /\ upload = [r \in Reqs |-> NoUpload]
    /\ df = [r \in Reqs |-> <<>>]
    /\ session = [r \in Reqs |-> "none"]
    /\ pending = [r \in Reqs |-> <<>>]
    /\ store = <<>>
    /\ resp = [r \in Reqs |-> NoResponse]

\* Lines 35-38: the request arrives and its file is read.
Upload(r, u) ==
    /\ pc[r] = "idle"
    /\ upload' = [upload EXCEPT ![r] = u]
    /\ pc' = [pc EXCEPT ![r] = "extract"]
    /\ UNCHANGED <<df, session, pending, store, resp>>

\* Mutant: no else branch, every other extension is read as CSV.
ExtractAnything(r) ==
    /\ pc[r] = "extract"
    /\ df' = [df EXCEPT ![r] = upload[r].rows]
    /\ pc' = [pc EXCEPT ![r] = "normalize"]
    /\ UNCHANGED <<upload, session, pending, store, resp>>

\* Lines 41-56: the parser is chosen by the extension.
Extract(r) ==
    /\ pc[r] = "extract"
    /\ IF upload[r].ext \in SupportedExt
       THEN /\ df' = [df EXCEPT ![r] = upload[r].rows]
            /\ pc' = [pc EXCEPT ![r] = "normalize"]
            /\ resp' = resp
       ELSE /\ resp' = [resp EXCEPT ![r] = ErrorResponse("Unsupported file format")]
            /\ pc' = [pc EXCEPT ![r] = "done"]
            /\ df' = df
    /\ UNCHANGED <<upload, session, pending, store>>

\* The exception lines 59-61 raise on the table, NoResponse when they
\* raise none: KeyError for a column that is missing, AttributeError
\* for .str on a type column with no text in it (every cell empty).
NormalizeError(u) ==
    IF "amount" \notin u.cols THEN Fault("KeyError", "amount")
    ELSE IF "type" \notin u.cols THEN Fault("KeyError", "type")
    ELSE IF u.rows # <<>> /\ \A i \in 1..Len(u.rows) : u.rows[i].type = NaNType
    THEN Fault("AttributeError", "str")
    ELSE IF "date" \notin u.cols THEN Fault("KeyError", "date")
    ELSE NoResponse

\* Lines 59-61: the three columns are coerced in place.
Normalize(r) ==
    /\ pc[r] = "normalize"
    /\ IF NormalizeError(upload[r]).kind = "fault"
       THEN /\ resp' = [resp EXCEPT ![r] = NormalizeError(upload[r])]
            /\ pc' = [pc EXCEPT ![r] = "done"]
            /\ df' = df
       ELSE /\ df' = [df EXCEPT ![r] = NormalizeRows(df[r])]
            /\ pc' = [pc EXCEPT ![r] = "open"]
            /\ resp' = resp
    /\ UNCHANGED <<upload, session, pending, store>>

\* Line 64: db = SessionLocal().
OpenSession(r) ==
    /\ pc[r] = "open"
    /\ session' = [session EXCEPT ![r] = "open"]
    /\ pc' = [pc EXCEPT ![r] = "add"]
    /\ UNCHANGED <<upload, df, pending, store, resp>>

\* Transaction(date=..., industry=row.get(..., "General"), ...); req is
\* not a column: it records which request inserted the row.
MakeTransaction(r, row) ==
    [req |-> r, date |-> row.date, industry |-> "General",
     category |-> "General", amount |-> row.amount, type |-> row.type]

\* Lines 65-72: one db.add per row.
AddRows(r) ==
    /\ pc[r] = "add"
    /\ pending' = [pending EXCEPT
                     ![r] = [i \in 1..Len(df[r]) |-> MakeTransaction(r, df[r][i])]]
    /\ pc' = [pc EXCEPT ![r] = "commit"]
    /\ UNCHANGED <<upload, df, session, store, resp>>

\* Line 73: db.commit() flushes the added objects to the table.
Commit(r) ==
    /\ pc[r] = "commit"
    /\ store' = store \o pending[r]
    /\ pending' = [pending EXCEPT ![r] = <<>>]
    /\ pc' = [pc EXCEPT ![r] = "close"]
    /\ UNCHANGED <<upload, df, session, resp>>

\* Line 73: db.commit() raises (the database is down, a row is refused);
\* nothing catches it, so lines 74-132 do not run.
CommitFails(r) ==
    /\ pc[r] = "commit"
    /\ resp' = [resp EXCEPT ![r] = Fault("SQLAlchemyError", "commit")]
    /\ pc' = [pc EXCEPT ![r] = "done"]
    /\ UNCHANGED <<upload, df, session, pending, store>>

\* Line 74: db.close().
Close(r) ==
    /\ pc[r] = "close"
    /\ session' = [session EXCEPT ![r] = "closed"]
    /\ pc' = [pc EXCEPT ![r] = "metrics"]
    /\ UNCHANGED <<upload, df, pending, store, resp>>

\* Mutant: the metrics computed over the rows of the shared table.
RespondFromStore(r) ==
    /\ pc[r] = "metrics"
    /\ resp' = [resp EXCEPT ![r] = Analyze(store)]
    /\ pc' = [pc EXCEPT ![r] = "done"]
    /\ UNCHANGED <<upload, df, session, pending, store>>

\* Lines 77-132: the metrics, the scores and the returned body.
Respond(r) ==
    /\ pc[r] = "metrics"
    /\ resp' = [resp EXCEPT ![r] = Analyze(df[r])]
    /\ pc' = [pc EXCEPT ![r] = "done"]
    /\ UNCHANGED <<upload, df, session, pending, store>>

\* The steps of analyze_financials after the file is read.
Handle(r) ==
    \/ Extract(r)
    \/ Normalize(r)
    \/ OpenSession(r)
    \/ AddRows(r)
    \/ Commit(r)
    \/ CommitFails(r)
    \/ Close(r)
    \/ Respond(r)

\* A CSV ledger of up to MaxRows clean rows.
UploadLedger(r) ==
    pc[r] = "idle" /\
    \E n \in 0..MaxRows : \E t \in Tables(LedgerRows, n) :
        Upload(r, UploadOf("csv", AllCols, t))

\* A CSV table of up to MaxMixedRows rows of any kind.
UploadMixed(r) ==
    pc[r] = "idle" /\
    \E n \in 0..MaxMixedRows : \E t \in Tables(RawRows, n) :
        Upload(r, UploadOf("csv", AllCols, t))

\* A table of at most one row, of any extension and any set of columns.
UploadAny(r) ==
    pc[r] = "idle" /\
    \E e \in Exts : \E c \in SUBSET AllCols :
        \E t \in {<<>>} \cup {<<row>> : row \in RawRows} :
            Upload(r, UploadOf(e, c, t))

\* A file of one of the concurrent requests.
UploadConc(r) ==
    pc[r] = "idle" /\
    \E e \in {"csv", "docx"} : \E n \in 0..MaxRowsConc :
        \E t \in Tables(ConcRows, n) :
            Upload(r, UploadOf(e, AllCols, t))

\* One request, analysed alone.
Next == UploadLedger(1) \/ UploadMixed(1) \/ UploadAny(1) \/ Handle(1)
Spec == Init /\ [][Next]_vars

\* Two requests, their steps interleaved.
ConcNext == \E r \in Reqs : UploadConc(r) \/ Handle(r)
ConcSpec == Init /\ [][ConcNext]_vars

\* ------------------------------------------------------------- claims
Returned(r) == resp[r].kind = "result"
Metrics(r) == resp[r].investor_metrics
LoanOf(r) == resp[r].loan_recommendation

\* What request r returns when it runs alone on its own upload.
AnalyzeAlone(rows) == Analyze(NormalizeRows(rows))

\* The sum of one column over the monthly entries, an entry without the
\* column counting 0, added as floats in the order of the list.
SumColumn(monthly, col) ==
    FSum([k \in 1..Len(monthly) |->
            IF col \in DOMAIN monthly[k] THEN monthly[k][col] ELSE 0])

PermSeqs(s) ==
    {[i \in 1..Len(s) |-> s[p[i]]] : p \in Permutations(1..Len(s))}

\* C1: in every returned result the monthly income entries sum to
\* total_income and the monthly expense entries sum to total_expense.
C1_MonthlySumsEqualTotals ==
    \A r \in Reqs : Returned(r) =>
        /\ SumColumn(resp[r].monthly_cashflow, "income") = Metrics(r).total_income
        /\ SumColumn(resp[r].monthly_cashflow, "expense") = Metrics(r).total_expense

\* C2: a returned result equals the result of every permutation of the
\* uploaded rows.
C2_RowOrderInvariant ==
    \A r \in Reqs : Returned(r) =>
        \A t \in PermSeqs(upload[r].rows) : AnalyzeAlone(t) = resp[r]

\* C3: credit_score is in [50, 100], and raising net_profit (margin held)
\* or profit_margin_percent (net_profit held) never lowers it: checked at
\* the returned metrics and at the points MaxRaise around them.
C3_CreditBoundedMonotone ==
    \A r \in Reqs : Returned(r) =>
        LET np == Metrics(r).net_profit
            pm == Metrics(r).profit_margin_percent
            credit == Metrics(r).credit_score
            shifts == {0 - MaxRaise, 0, MaxRaise}
        IN  /\ credit \in 50..100
            /\ \A a \in shifts, b \in shifts, k \in 1..MaxRaise :
                 LET n0 == np + a
                     m0 == pm + 100 * b
                 IN  /\ Credit(n0, m0) \in 50..100
                     /\ Credit(n0 + k, m0) >= Credit(n0, m0)
                     /\ Credit(n0, m0 + 100 * k) >= Credit(n0, m0)

\* C3 witness: a result with score 70 that a raise of the margin within
\* MaxRaise percent brings to 85.
C3_Witness ==
    /\ Returned(1)
    /\ Metrics(1).credit_score = 70
    /\ Credit(Metrics(1).net_profit,
              Metrics(1).profit_margin_percent + 100 * MaxRaise) = 85

\* C4: recommended_amount is a non-negative integer: 0 when eligible is
\* NO, else int(net_profit / max(buckets, 1) * multiplier) with the
\* multiplier 12, 6, 3 of the risk level.
C4_RecommendedAmount ==
    \A r \in Reqs : Returned(r) =>
        LET loan == LoanOf(r)
            n == Max(Len(resp[r].monthly_cashflow), 1)
            mult == CASE loan.risk_level = "LOW" -> 12
                      [] loan.risk_level = "MEDIUM" -> 6
                      [] loan.risk_level = "HIGH" -> 3
        IN  /\ loan.recommended_amount \in Nat
            /\ loan.eligible = "NO" => loan.recommended_amount = 0
            /\ loan.eligible # "NO" =>
                 loan.recommended_amount = Trunc(Metrics(r).net_profit * mult, n)

\* C4 witness: an eligible result over several months with a positive amount.
C4_Witness ==
    /\ Returned(1)
    /\ LoanOf(1).eligible # "NO"
    /\ LoanOf(1).recommended_amount > 0
    /\ Len(resp[1].monthly_cashflow) >= 2

\* C5: a request whose table has no date column ends with the structured
\* error MissingColumn("date").
C5_MissingDateStructured ==
    \A r \in Reqs :
        (pc[r] = "done" /\ upload[r].ext \in SupportedExt /\ "date" \notin upload[r].cols)
        => /\ resp[r].kind = "error"
           /\ resp[r].error = "MissingColumn(date)"

\* C6: a request whose file has an unsupported extension ends with the
\* structured error response, never opened a session and stored nothing.
C6_UnsupportedFormat ==
    \A r \in Reqs :
        (pc[r] = "done" /\ upload[r].ext \notin SupportedExt)
        => /\ resp[r].kind = "error"
           /\ resp[r] = ErrorResponse("Unsupported file format")
           /\ session[r] = "none"
           /\ pending[r] = <<>>
           /\ \A i \in 1..Len(store) : store[i].req # r

\* C6 witness: a .docx request has ended.
C6_Witness ==
    /\ pc[1] = "done"
    /\ upload[1].ext = "docx"
    /\ upload[1].cols = AllCols
    /\ resp[1].kind = "error"

\* C7: a request whose table normalizes returns the analysis result,
\* whether or not the store accepts its rows.
C7_ResultWithoutPersistence ==
    \A r \in Reqs :
        (/\ pc[r] = "done"
         /\ upload[r].ext \in SupportedExt
         /\ NormalizeError(upload[r]).kind = "none")
        => Returned(r)

\* C8: the result of each of the concurrent requests is the result it
\* returns when run alone on its own upload.
C8_ResultIsOwn ==
    \A r \in Reqs : Returned(r) => resp[r] = AnalyzeAlone(upload[r].rows)

\* C8 witness: both requests returned, with different results, after the
\* second request's rows were stored before the first's.
C8_Witness ==
    /\ Returned(1) /\ Returned(2)
    /\ resp[1] # resp[2]
    /\ Len(store) >= 2
    /\ store[1].req = 2
    /\ store[Len(store)].req = 1

\* C9: when a request has ended, its session is not open.
C9_SessionClosedAtEnd ==
    \A r \in Reqs : pc[r] = "done" => session[r] # "open"

\* C10: in every returned result HIGH risk implies eligible NO and
\* recommended_amount 0, and credit_score is 50, 70 or 85.
C10_HighRiskNotEligible ==
    \A r \in Reqs : Returned(r) =>
        /\ LoanOf(r).risk_level = "HIGH" =>
             (LoanOf(r).eligible = "NO" /\ LoanOf(r).recommended_amount = 0)
        /\ Metrics(r).credit_score \in {50, 70, 85}

\* C10 witness: a HIGH-risk result with a loss, where the multiplier 3
\* would have given a non-zero amount.
C10_Witness ==
    /\ Returned(1)
    /\ LoanOf(1).risk_level = "HIGH"
    /\ Metrics(1).net_profit < 0
    /\ Metrics(1).total_income > 0

====
